---- MODULE Spec2Model ----
(***************************************************************************)
(* Model of app.py of can-pressure-analyzer: the per-file decode pipeline  *)
(* load_and_process_data (CSV reader, CAN-ID filter, time normalisation,   *)
(* payload decoding, result assembly), the helper hex_to_pressure and the  *)
(* main script's loop over the uploaded files.                             *)
(*                                                                         *)
(* Representation.                                                         *)
(*  - A Python str is a sequence of one-character strings.                 *)
(*  - A float in the Pressure column is the record [nan, num]: num is the  *)
(*    numerator of the exact value num/255 (PHYSICAL_FACTOR = 200/255).    *)
(*    255 * (200.0/255.0) is exactly 200.0 in IEEE doubles and the product *)
(*    is monotone in the byte, so comparisons against 0 and 200 agree.     *)
(*  - A datetime / timedelta is the record [nat, s, us]: whole seconds and *)
(*    microseconds (the date 1900-01-01 that strptime supplies cancels in  *)
(*    the subtraction of line 101).                                        *)
(*  - pandas.read_csv is not re-implemented: an uploaded file carries, for *)
(*    each delimiter candidate, the outcome read_csv has on its bytes      *)
(*    (an exception, or the table of rows); a cell is the text that        *)
(*    astype(str) gives for it (lines 86, 95, 109).                        *)
(*  - st.cache_data (line 45) memoises a function of the file alone; it is *)
(*    not modelled.                                                        *)
(***************************************************************************)
EXTENDS Integers, Sequences, FiniteSets, TLC

(***************************************************************************)
(* Configuration constants, app.py lines 9-21.                             *)
(***************************************************************************)
TARGET_CAN_ID == <<"2", "9", "5">>
START_BYTE_INDEX == 1
MAX_PHYSICAL_PRESSURE == 200
RAW_FULL_SCALE == 255
\* PHYSICAL_FACTOR = MAX_PHYSICAL_PRESSURE / 255.0, as numerator and denominator
PHYSICAL_FACTOR == [num |-> MAX_PHYSICAL_PRESSURE, den |-> RAW_FULL_SCALE]
COLUMNS == {"Bus", "No", "Time", "State", "ID (hex)", "DLC", "Data (hex)", "ASCII"}
TIME_COLUMN == "Time"
CAN_ID_COLUMN == "ID (hex)"
DATA_COLUMN == "Data (hex)"
\* delimiters = [',', '\\s+', '\t', ';'], line 52
delimiters == <<"comma", "whitespace-run", "tab", "semicolon">>
\* uploaded_files[:3], line 138
MAX_FILES_TO_PROCESS == 3

(***************************************************************************)
(* Python str primitives used by the code.                                 *)
(***************************************************************************)
IsSpace(c) == c \in {" ", "\t"}
IsDigit(c) == c \in {"0", "1", "2", "3", "4", "5", "6", "7", "8", "9"}

RECURSIVE LStrip(_)
LStrip(s) == IF s # <<>> /\ IsSpace(Head(s)) THEN LStrip(Tail(s)) ELSE s

RECURSIVE RStrip(_)
RStrip(s) ==
    IF s # <<>> /\ IsSpace(s[Len(s)]) THEN RStrip(SubSeq(s, 1, Len(s) - 1)) ELSE s

\* str.strip()
Strip(s) == RStrip(LStrip(s))

RECURSIVE SplitAcc(_, _, _)
SplitAcc(s, cur, acc) ==
    IF s = <<>>
    THEN IF cur = <<>> THEN acc ELSE Append(acc, cur)
    ELSE IF IsSpace(Head(s))
         THEN SplitAcc(Tail(s), <<>>, IF cur = <<>> THEN acc ELSE Append(acc, cur))
         ELSE SplitAcc(Tail(s), Append(cur, Head(s)), acc)

\* str.split() with no argument: runs of whitespace separate, no empty tokens
Split(s) == SplitAcc(s, <<>>, <<>>)

UpperChar(c) ==
    CASE c = "a" -> "A" [] c = "b" -> "B" [] c = "c" -> "C" [] c = "d" -> "D"
      [] c = "e" -> "E" [] c = "f" -> "F" [] c = "x" -> "X" [] OTHER -> c

\* str.upper()
Upper(s) == [k \in 1..Len(s) |-> UpperChar(s[k])]

\* value of one digit
DigitVal(c) ==
    CASE c = "0" -> 0 [] c = "1" -> 1 [] c = "2" -> 2 [] c = "3" -> 3 [] c = "4" -> 4
      [] c = "5" -> 5 [] c = "6" -> 6 [] c = "7" -> 7 [] c = "8" -> 8 [] c = "9" -> 9
      [] c \in {"a", "A"} -> 10 [] c \in {"b", "B"} -> 11 [] c \in {"c", "C"} -> 12
      [] c \in {"d", "D"} -> 13 [] c \in {"e", "E"} -> 14 [] c \in {"f", "F"} -> 15
      [] OTHER -> 99

IsHexDigit(c) == DigitVal(c) < 16

(***************************************************************************)
(* int(token, 16), line 35.  CPython accepts an optional sign, an optional *)
(* 0x / 0X prefix, and hexadecimal digits with single underscores between  *)
(* digits (one is also allowed right after the prefix); anything else      *)
(* raises ValueError.  The result is [ok, val].                            *)
(***************************************************************************)
RECURSIVE HexDigitsOK(_, _)
\* digits (_? digit)* : prevUnderscore tells whether the previous char was "_"
HexDigitsOK(s, prevUnderscore) ==
    IF s = <<>> THEN ~prevUnderscore
    ELSE IF Head(s) = "_" THEN ~prevUnderscore /\ HexDigitsOK(Tail(s), TRUE)
    ELSE IsHexDigit(Head(s)) /\ HexDigitsOK(Tail(s), FALSE)

RECURSIVE HexValue(_, _)
HexValue(s, acc) ==
    IF s = <<>> THEN acc
    ELSE IF Head(s) = "_" THEN HexValue(Tail(s), acc)
    ELSE HexValue(Tail(s), acc * 16 + DigitVal(Head(s)))

PyIntBase16(tok) ==
    LET neg == tok # <<>> /\ Head(tok) = "-"
        signed == tok # <<>> /\ Head(tok) \in {"-", "+"}
        body == IF signed THEN Tail(tok) ELSE tok
        prefixed == Len(body) >= 2 /\ body[1] = "0" /\ body[2] \in {"x", "X"}
        rest == IF prefixed THEN SubSeq(body, 3, Len(body)) ELSE body
        \* after the prefix one leading underscore is allowed
        digits == IF prefixed /\ rest # <<>> /\ Head(rest) = "_" THEN Tail(rest) ELSE rest
        ok == digits # <<>> /\ Head(digits) # "_" /\ HexDigitsOK(digits, FALSE)
        mag == IF ok THEN HexValue(digits, 0) ELSE 0
    IN [ok |-> ok, val |-> IF neg THEN 0 - mag ELSE mag]

NaN == [nan |-> TRUE, num |-> 0]
Float255(n) == [nan |-> FALSE, num |-> n]

\* hex_to_pressure, lines 28-43
hex_to_pressure(hex_data_string) ==
    LET byte_list == Split(Strip(hex_data_string))
    IN IF Len(byte_list) < START_BYTE_INDEX + 1
       THEN NaN                                       \* IndexError
       ELSE LET decimal_value == PyIntBase16(byte_list[START_BYTE_INDEX + 1])
            IN IF ~decimal_value.ok
               THEN NaN                               \* ValueError
               ELSE Float255(decimal_value.val * PHYSICAL_FACTOR.num)

(***************************************************************************)
(* Series.str.replace(pattern, r'00:\1:\2', regex=True), line 98, where    *)
(* the pattern is: group 1 = one or more digits, a colon, group 2 = one or *)
(* more digits, an optional dot, zero or more digits.  Every               *)
(* non-overlapping match, scanning left to right, is replaced by "00:"     *)
(* followed by the matched text.                                           *)
(***************************************************************************)
RECURSIVE DigitRunEnd(_, _)
\* index of the first non-digit at or after p (Len(s) + 1 when there is none)
DigitRunEnd(s, p) ==
    IF p <= Len(s) /\ IsDigit(s[p]) THEN DigitRunEnd(s, p + 1) ELSE p

\* where a match of the pattern starting at p ends (exclusive); 0: no match
MatchEnd(s, p) ==
    LET q == DigitRunEnd(s, p)
        r == DigitRunEnd(s, q + 1)
    IN IF q > p /\ q <= Len(s) /\ s[q] = ":" /\ r > q + 1
       THEN IF r <= Len(s) /\ s[r] = "." THEN DigitRunEnd(s, r + 1) ELSE r
       ELSE 0

RECURSIVE RegexSubFrom(_, _)
RegexSubFrom(s, p) ==
    IF p > Len(s) THEN <<>>
    ELSE LET e == MatchEnd(s, p)
         IN IF e > 0
            THEN <<"0", "0", ":">> \o SubSeq(s, p, e - 1) \o RegexSubFrom(s, e)
            ELSE <<s[p]>> \o RegexSubFrom(s, p + 1)

RegexSub(s) == RegexSubFrom(s, 1)

(***************************************************************************)
(* pd.to_datetime(..., format='%H:%M:%S.%f', errors='coerce'), line 99.    *)
(* The format is not ISO8601, so each string goes through strptime's       *)
(* regular expression                                                      *)
(*   H = 2[0-3]|[0-1]\d|\d  ":"  M = [0-5]\d|\d  ":"  S = 6[0-1]|[0-5]\d|\d   *)
(*   "."  f = [0-9]{1,6}                                                   *)
(* which must match from the start and consume the whole string; a string  *)
(* that does not match is coerced to NaT.                                  *)
(***************************************************************************)
NaT == [nat |-> TRUE, s |-> 0, us |-> 0]
TimeOf(sec, usec) == [nat |-> FALSE, s |-> sec, us |-> usec]

RECURSIVE DecValue(_, _)
DecValue(s, acc) ==
    IF s = <<>> THEN acc ELSE DecValue(Tail(s), acc * 10 + DigitVal(Head(s)))

\* a field of one digit, or of two digits whose decimal value is at most max
FieldOK(f, max) == Len(f) = 1 \/ (Len(f) = 2 /\ DecValue(f, 0) <= max)

RECURSIVE PadRight(_, _)
PadRight(f, n) == IF Len(f) >= n THEN f ELSE PadRight(Append(f, "0"), n)

Strptime(s) ==
    LET h1 == DigitRunEnd(s, 1)            \* s[h1] must be ":"
        m1 == DigitRunEnd(s, h1 + 1)       \* s[m1] must be ":"
        s1 == DigitRunEnd(s, m1 + 1)       \* s[s1] must be "."
        f1 == DigitRunEnd(s, s1 + 1)       \* must be Len(s) + 1
        H == SubSeq(s, 1, h1 - 1)
        M == SubSeq(s, h1 + 1, m1 - 1)
        S == SubSeq(s, m1 + 1, s1 - 1)
        F == SubSeq(s, s1 + 1, f1 - 1)
        shape == /\ h1 > 1 /\ h1 <= Len(s) /\ s[h1] = ":"
                 /\ m1 > h1 + 1 /\ m1 <= Len(s) /\ s[m1] = ":"
                 /\ s1 > m1 + 1 /\ s1 <= Len(s) /\ s[s1] = "."
                 /\ f1 > s1 + 1 /\ f1 = Len(s) + 1
    IN IF shape /\ FieldOK(H, 23) /\ FieldOK(M, 59) /\ FieldOK(S, 61)
                /\ Len(F) >= 1 /\ Len(F) <= 6
       THEN TimeOf(DecValue(H, 0) * 3600 + DecValue(M, 0) * 60 + DecValue(S, 0),
                   DecValue(PadRight(F, 6), 0))
       ELSE NaT

\* lines 98-99 on one element of time_series
ToDatetime(time_str) == Strptime(RegexSub(time_str))

TimeLess(a, b) == a.s < b.s \/ (a.s = b.s /\ a.us < b.us)

\* mutant of SeriesMin: the first parsed time instead of the smallest
SeriesMinFirst(time_dt) ==
    LET valid == {k \in 1..Len(time_dt) : ~time_dt[k].nat}
    IN IF valid = {} THEN NaT
       ELSE time_dt[CHOOSE k \in valid : \A j \in valid : k <= j]

\* Series.min(), line 101: NaT entries are skipped; NaT when none is left
SeriesMin(time_dt) ==
    LET valid == {k \in 1..Len(time_dt) : ~time_dt[k].nat}
    IN IF valid = {} THEN NaT
       ELSE time_dt[CHOOSE k \in valid : \A j \in valid : ~TimeLess(time_dt[j], time_dt[k])]

\* datetime - datetime, line 101; NaT propagates
TimeSub(a, b) ==
    IF a.nat \/ b.nat THEN NaT
    ELSE IF a.us >= b.us THEN TimeOf(a.s - b.s, a.us - b.us)
    ELSE TimeOf(a.s - b.s - 1, a.us + 1000000 - b.us)

\* lines 98-102: the elapsed values written to the Time column
\* (time_delta.dt.total_seconds(): NaT becomes NaN, kept here as nat = TRUE)
NormalizeTimes(time_series) ==
    LET time_dt == [k \in 1..Len(time_series) |-> ToDatetime(time_series[k])]
        t0 == SeriesMin(time_dt)
    IN [k \in 1..Len(time_series) |-> TimeSub(time_dt[k], t0)]

(***************************************************************************)
(* Tables.  A row carries the three columns the pipeline reads: Time, ID   *)
(* (column 'ID (hex)') and Data (column 'Data (hex)').  A text cell of the *)
(* Time column is [text |-> str]; line 102 overwrites it with the elapsed  *)
(* value [nat, s, us].  None is the Python None of df / the return value.  *)
(***************************************************************************)
None == [none |-> TRUE, columns |-> {}, rows |-> <<>>]
DataFrame(rs) == [none |-> FALSE, columns |-> COLUMNS, rows |-> rs]
Row(time, id, data) == [Time |-> [text |-> time], ID |-> id, Data |-> data]

\* pd.read_csv(io.StringIO(data), sep=sep, names=COLUMNS, ...), lines 58-66:
\* raises when the bytes are not UTF-8 or the parser fails for this separator
ReadCsv(file, k) ==
    IF ~file.utf8 \/ ~file.parse[k].ok
    THEN [raised |-> TRUE, df |-> None]
    ELSE [raised |-> FALSE, df |-> DataFrame(file.parse[k].rows)]

\* mutant of MessageFilter: the identifier is uppercased but not trimmed
MessageFilterNoStrip(rows) ==
    LET normalised == [k \in 1..Len(rows) |->
                          [rows[k] EXCEPT !.ID = Upper(rows[k].ID)]]
    IN SelectSeq(normalised, LAMBDA r : r.ID = TARGET_CAN_ID)

\* lines 86-88: normalise the identifier column, keep the rows of the target
MessageFilter(rows) ==
    LET normalised == [k \in 1..Len(rows) |->
                          [rows[k] EXCEPT !.ID = Upper(Strip(rows[k].ID))]]
    IN SelectSeq(normalised, LAMBDA r : r.ID = TARGET_CAN_ID)

\* to_datetime raising inside the try of lines 97-102: errors='coerce' turns
\* every string that does not parse into NaT, so the handler of lines 104-106
\* is not entered for text cells
TimeConversionRaises(time_series) == FALSE

\* mutant of DropNa: only the Pressure column is looked at
DropNaPressureOnly(rows) == SelectSeq(rows, LAMBDA r : ~r.Pressure.nan)

\* DataFrame.dropna(subset=['Pressure', TIME_COLUMN]), line 113
DropNa(rows) == SelectSeq(rows, LAMBDA r : ~r.Pressure.nan /\ ~r.Time.nat)

VARIABLES
    uploaded_files,     \* st.file_uploader result, line 131
    files_to_process,   \* line 138
    processed_data,     \* line 140: entries [idx, df, name] in insertion order
    i,                  \* enumerate index of the loop of line 141
    pc,                 \* position: main script / stage of load_and_process_data
    sep,                \* position of the delimiter loop, line 56 (1-based)
    df,                 \* line 53
    df_filtered,        \* line 83
    time_series,        \* line 95
    time_dt_str,        \* line 98
    time_dt,            \* line 99
    ret,                \* value returned by load_and_process_data
    msgs,               \* st.info / success / warning / error of the current call
    results             \* per finished call: [file_index, name, ret, msgs]

vars == <<uploaded_files, files_to_process, processed_data, i, pc, sep, df,
          df_filtered, time_series, time_dt_str, time_dt, ret, msgs, results>>

locals == <<df, df_filtered, time_series, time_dt_str, time_dt>>

\* the messages, by source line
MSG_INFO == "info: processing file"                         \* line 50
MSG_LOADED == "success: loaded with delimiter"              \* line 69
MSG_UNPARSEABLE == "error: cannot load data"                \* line 79
MSG_NO_ID == "warning: no data for CAN ID"                  \* line 91
MSG_TIME == "error: time conversion failed"                 \* line 105
MSG_EMPTY == "error: no valid data left after conversion"   \* line 116
FailureMessages == {MSG_UNPARSEABLE, MSG_NO_ID, MSG_TIME, MSG_EMPTY}

CurrentFile == files_to_process[i + 1]

\* string literals
T10 == <<"1", "0">>
T20 == <<"2", "0">>
T_SP == <<" ">>
T_WS == <<" ", "\t">>
T_051050 == <<"0", "5", ":", "1", "0", ".", "5", "0", "0">>
T_051000 == <<"0", "5", ":", "1", "0", ".", "0", "0", "0">>
T_051100 == <<"0", "5", ":", "1", "1", ".", "0", "0", "0">>
T_050900 == <<"0", "5", ":", "0", "9", ".", "0", "0", "0">>
T_595999 == <<"5", "9", ":", "5", "9", ".", "9", "9", "9", "9", "9", "9">>
T_0510 == <<"0", "5", ":", "1", "0">>
T_3FIELDS == <<"1", ":", "0", "5", ":", "1", "0", ".", "5">>
T_BAD == <<"x", "5", ":", "1", "0", ".", "5">>
T_0555 == <<"0", "5", ":", "5", ".", "5">>
T_5055 == <<"5", ":", "0", "5", ".", "5">>
T_500505 == <<"5", "0", ":", "0", "5", ".", "0", "5">>
T_55505 == <<"5", ":", "5", ".", "5", "0", "5">>
T_55555 == <<"5", "5", ":", "5", "5", ".", "5">>
T_58 == <<"5", ":", "5", "8">>
T_0059 == <<"0", "0", ":", "5", "9">>
ID_295 == <<"2", "9", "5">>
ID_295_SP == <<" ", "2", "9", "5", " ">>
ID_295_TAB == <<"\t", "2", "9", "5">>
ID_296 == <<"2", "9", "6">>
D_10FF20 == <<"1", "0", " ", "F", "F", " ", "2", "0">>
D_0000 == <<"0", "0", " ", "0", "0">>
D_AB == <<"A", "B">>
D_1080 == <<" ", "1", "0", " ", "8", "0", " ">>
D_FFGG == <<"F", "F", " ", "G", "G">>

(***************************************************************************)
(* Inputs.  A run is the sequence of uploaded files.  The runs of the      *)
(* model are: every sequence of at most MaxFiles files of FilePool; and    *)
(* single comma-separated files whose table is every table of at most      *)
(* MaxRows rows of RowPool, a row with every payload of Payloads, or a row *)
(* with every time string of TimeStrings.                                  *)
(***************************************************************************)
MaxFiles == 4
MaxRows == 3
MaxTokLen == 3
MaxTimeLen == 5

RECURSIVE StringsUpTo(_, _)
StringsUpTo(A, n) ==
    IF n = 0 THEN {<<>>}
    ELSE LET S == StringsUpTo(A, n - 1) IN S \cup {Append(t, c) : t \in S, c \in A}

RECURSIVE SeqsUpTo(_, _)
SeqsUpTo(S, n) ==
    IF n = 0 THEN {<<>>}
    ELSE LET Q == SeqsUpTo(S, n - 1) IN Q \cup {Append(q, e) : q \in Q, e \in S}

TokAlphabet == {"0", "F", "a", "G", "-", "x", "_"}
Tokens == StringsUpTo(TokAlphabet, MaxTokLen)
Payloads ==
    {T10 \o T_SP \o t : t \in Tokens}
    \cup {t \in Tokens : Len(t) <= 2}
    \cup {T_WS \o T10 \o T_WS \o t \o T_WS \o T20 \o T_SP : t \in {u \in Tokens : Len(u) <= 2}}

TimeAlphabet == {"0", "5", ":", "."}
TimeStrings ==
    StringsUpTo(TimeAlphabet, MaxTimeLen)
    \cup {T_051050, T_051000, T_051100, T_SP \o T_051050 \o T_WS, T_595999,
          T_0510, T_3FIELDS, T_BAD, T_0555, T_5055, T_500505, T_55505, T_55555,
          T_58, T_0059}

RowPool ==
    { Row(T_051050, ID_295, D_10FF20),
      Row(T_051000, ID_295_SP, D_0000),
      Row(T_051100, ID_295, D_AB),
      Row(T_0510, ID_295, D_1080),
      Row(T_050900, ID_296, D_10FF20),
      Row(T_3FIELDS, ID_295_TAB, D_FFGG) }
Tables == SeqsUpTo(RowPool, MaxRows)

Fails == [ok |-> FALSE, rows |-> <<>>]
Parses(rs) == [ok |-> TRUE, rows |-> rs]
\* what read_csv makes of a line that holds no separator: one field, the
\* other columns NaN, which astype(str) turns into "nan"
JunkRow == Row(<<"n", "a", "n">>, <<"n", "a", "n">>, <<"n", "a", "n">>)

\* a comma-separated file: the comma parses; the later candidates (never tried)
\* would find no separator
CommaFile(nm, rs) ==
    [name |-> nm, utf8 |-> TRUE,
     parse |-> <<Parses(rs), Parses(<<JunkRow>>), Parses(<<JunkRow>>), Parses(<<JunkRow>>)>>]

FilePool ==
    { CommaFile("good.csv", <<Row(T_051050, ID_295, D_10FF20), Row(T_051000, ID_295_SP, D_0000)>>),
      \* only the semicolon candidate parses
      [name |-> "semicolon.csv", utf8 |-> TRUE,
       parse |-> <<Fails, Fails, Fails, Parses(<<Row(T_051100, ID_295, D_1080)>>)>>],
      \* not UTF-8: decode raises for every candidate
      [name |-> "binary.csv", utf8 |-> FALSE,
       parse |-> <<Parses(<<JunkRow>>), Parses(<<JunkRow>>), Parses(<<JunkRow>>), Parses(<<JunkRow>>)>>],
      \* no row of the target identifier
      CommaFile("other_id.csv", <<Row(T_050900, ID_296, D_10FF20)>>),
      \* whitespace-separated; no time has a fractional part
      [name |-> "no_fraction.csv", utf8 |-> TRUE,
       parse |-> <<Fails, Parses(<<Row(T_0510, ID_295, D_1080), Row(T_0510, ID_295, D_10FF20)>>),
                   Parses(<<JunkRow>>), Fails>>] }

Runs ==
    SeqsUpTo(FilePool, MaxFiles)
    \cup {<<CommaFile("table.csv", t)>> : t \in Tables}
    \cup {<<CommaFile("payload.csv", <<Row(T_051050, ID_295, d)>>)>> : d \in Payloads}
    \cup {<<CommaFile("time.csv", <<Row(t, ID_295, D_10FF20)>>)>> : t \in TimeStrings}

(***************************************************************************)
(* The state machine.                                                      *)
(***************************************************************************)
Init ==
    /\ uploaded_files \in Runs
    /\ files_to_process = <<>>
    /\ processed_data = <<>>
    /\ i = 0
    /\ pc = "Start"
    /\ sep = 1
    /\ df = None
    /\ df_filtered = <<>>
    /\ time_series = <<>>
    /\ time_dt_str = <<>>
    /\ time_dt = <<>>
    /\ ret = None
    /\ msgs = <<>>
    /\ results = <<>>

\* mutant of Start: every uploaded file is processed (no [:3])
StartAllFiles ==
    /\ pc = "Start"
    /\ files_to_process' = uploaded_files
    /\ pc' = IF uploaded_files # <<>> THEN "Loop" ELSE "Done"
    /\ processed_data' = <<>>
    /\ UNCHANGED <<uploaded_files, i, sep, locals, ret, msgs, results>>

\* lines 137-140: if uploaded_files: files_to_process = uploaded_files[:3]
Start ==
    /\ pc = "Start"
    /\ IF uploaded_files # <<>>
       THEN /\ files_to_process' =
                   SubSeq(uploaded_files, 1,
                          IF Len(uploaded_files) < MAX_FILES_TO_PROCESS
                          THEN Len(uploaded_files) ELSE MAX_FILES_TO_PROCESS)
            /\ pc' = "Loop"
       ELSE /\ files_to_process' = <<>>
            /\ pc' = "Done"
    /\ processed_data' = <<>>
    /\ UNCHANGED <<uploaded_files, i, sep, locals, ret, msgs, results>>

\* lines 141-142 and 50-53: the loop calls load_and_process_data(file, i + 1)
CallLoad ==
    /\ pc = "Loop"
    /\ i < Len(files_to_process)
    /\ msgs' = <<MSG_INFO>>
    /\ df' = None
    /\ sep' = 1
    /\ df_filtered' = <<>>
    /\ time_series' = <<>>
    /\ time_dt_str' = <<>>
    /\ time_dt' = <<>>
    /\ ret' = None
    /\ pc' = "Uploaded"
    /\ UNCHANGED <<uploaded_files, files_to_process, processed_data, i, results>>

\* mutant of TryDelimiter: no break after the first candidate that parses
TryDelimiterNoBreak ==
    /\ pc = "Uploaded"
    /\ sep <= Len(delimiters)
    /\ LET r == ReadCsv(CurrentFile, sep)
       IN IF ~r.raised /\ {TIME_COLUMN, CAN_ID_COLUMN, DATA_COLUMN} \subseteq r.df.columns
          THEN /\ df' = r.df
               /\ msgs' = Append(msgs, MSG_LOADED)
          ELSE /\ df' = None
               /\ msgs' = msgs
    /\ pc' = pc
    /\ sep' = sep + 1
    /\ UNCHANGED <<uploaded_files, files_to_process, processed_data, i,
                   df_filtered, time_series, time_dt_str, time_dt, ret, results>>

\* lines 56-76: one iteration of the loop over the delimiter candidates
TryDelimiter ==
    /\ pc = "Uploaded"
    /\ sep <= Len(delimiters)
    /\ LET r == ReadCsv(CurrentFile, sep)
       IN IF ~r.raised /\ {TIME_COLUMN, CAN_ID_COLUMN, DATA_COLUMN} \subseteq r.df.columns
          THEN \* lines 68-70: success message, break; df is not None at line 78
               /\ df' = r.df
               /\ msgs' = Append(msgs, MSG_LOADED)
               /\ pc' = "Parsed"
               /\ sep' = sep
          ELSE \* lines 71-76: df = None, continue
               /\ df' = None
               /\ msgs' = msgs
               /\ pc' = pc
               /\ sep' = sep + 1
    /\ UNCHANGED <<uploaded_files, files_to_process, processed_data, i,
                   df_filtered, time_series, time_dt_str, time_dt, ret, results>>

\* lines 78-80: the loop ran out of candidates
AfterDelimiters ==
    /\ pc = "Uploaded"
    /\ sep > Len(delimiters)
    /\ IF df.none
       THEN /\ msgs' = Append(msgs, MSG_UNPARSEABLE)
            /\ ret' = None
            /\ pc' = "Returned"
       ELSE /\ msgs' = msgs
            /\ ret' = ret
            /\ pc' = "Parsed"
    /\ UNCHANGED <<uploaded_files, files_to_process, processed_data, i, sep,
                   locals, results>>

\* mutant of FilterStage: the warning of line 91 is not followed by a return
FilterStageNoReturn ==
    /\ pc = "Parsed"
    /\ LET filtered == MessageFilter(df.rows)
       IN /\ df_filtered' = filtered
          /\ msgs' = IF filtered = <<>> THEN Append(msgs, MSG_NO_ID) ELSE msgs
    /\ ret' = ret
    /\ pc' = "Filtered"
    /\ UNCHANGED <<uploaded_files, files_to_process, processed_data, i, sep,
                   df, time_series, time_dt_str, time_dt, results>>

\* lines 83-92: filter on the target CAN ID
FilterStage ==
    /\ pc = "Parsed"
    /\ LET filtered == MessageFilter(df.rows)
       IN /\ df_filtered' = filtered
          /\ IF filtered = <<>>
             THEN /\ msgs' = Append(msgs, MSG_NO_ID)
                  /\ ret' = None
                  /\ pc' = "Returned"
             ELSE /\ msgs' = msgs
                  /\ ret' = ret
                  /\ pc' = "Filtered"
    /\ UNCHANGED <<uploaded_files, files_to_process, processed_data, i, sep,
                   df, time_series, time_dt_str, time_dt, results>>

\* lines 95-106: time conversion
TimeStage ==
    /\ pc = "Filtered"
    /\ LET series == [k \in 1..Len(df_filtered) |-> Strip(df_filtered[k].Time.text)]
           elapsed == NormalizeTimes(series)
       IN /\ time_series' = series
          /\ IF TimeConversionRaises(series)
             THEN /\ msgs' = Append(msgs, MSG_TIME)
                  /\ time_dt_str' = <<>>
                  /\ time_dt' = <<>>
                  /\ df_filtered' = [k \in 1..Len(df_filtered) |->
                                        [df_filtered[k] EXCEPT !.Time = NaT]]
             ELSE /\ msgs' = msgs
                  /\ time_dt_str' = [k \in 1..Len(series) |-> RegexSub(series[k])]
                  /\ time_dt' = [k \in 1..Len(series) |-> ToDatetime(series[k])]
                  /\ df_filtered' = [k \in 1..Len(df_filtered) |->
                                        [df_filtered[k] EXCEPT !.Time = elapsed[k]]]
    /\ pc' = "TimeNormalized"
    /\ UNCHANGED <<uploaded_files, files_to_process, processed_data, i, sep,
                   df, ret, results>>

\* lines 109-110: pressure computation
DecodeStage ==
    /\ pc = "TimeNormalized"
    /\ df_filtered' =
          [k \in 1..Len(df_filtered) |->
              [Time |-> df_filtered[k].Time,
               ID |-> df_filtered[k].ID,
               Data |-> Strip(df_filtered[k].Data),
               Pressure |-> hex_to_pressure(Strip(df_filtered[k].Data))]]
    /\ pc' = "Decoded"
    /\ UNCHANGED <<uploaded_files, files_to_process, processed_data, i, sep,
                   df, time_series, time_dt_str, time_dt, ret, msgs, results>>

\* line 113: drop the rows with a missing pressure or time
AssembleStage ==
    /\ pc = "Decoded"
    /\ df_filtered' = DropNa(df_filtered)
    /\ pc' = "Assembled"
    /\ UNCHANGED <<uploaded_files, files_to_process, processed_data, i, sep,
                   df, time_series, time_dt_str, time_dt, ret, msgs, results>>

\* lines 115-119: None when nothing is left, the table otherwise
ReturnStage ==
    /\ pc = "Assembled"
    /\ IF df_filtered = <<>>
       THEN /\ msgs' = Append(msgs, MSG_EMPTY)
            /\ ret' = None
       ELSE /\ msgs' = msgs
            /\ ret' = DataFrame(df_filtered)
    /\ pc' = "Returned"
    /\ UNCHANGED <<uploaded_files, files_to_process, processed_data, i, sep,
                   locals, results>>

\* lines 142-147: the main loop keeps the non-empty result and moves on
Collect ==
    /\ pc = "Returned"
    /\ processed_data' =
          IF ~ret.none /\ ret.rows # <<>>
          THEN Append(processed_data,
                      [idx |-> i, df |-> ret, name |-> CurrentFile.name])
          ELSE processed_data
    /\ results' = Append(results, [file_index |-> i + 1, name |-> CurrentFile.name,
                                   ret |-> ret, msgs |-> msgs])
    /\ i' = i + 1
    /\ pc' = "Loop"
    /\ UNCHANGED <<uploaded_files, files_to_process, sep, locals, ret, msgs>>

\* the loop of line 141 is exhausted; what follows (lines 149-306) only displays
Finish ==
    /\ pc = "Loop"
    /\ i >= Len(files_to_process)
    /\ pc' = "Done"
    /\ UNCHANGED <<uploaded_files, files_to_process, processed_data, i, sep,
                   locals, ret, msgs, results>>

Next ==
    \/ Start
    \/ CallLoad
    \/ TryDelimiter
    \/ AfterDelimiters
    \/ FilterStage
    \/ TimeStage
    \/ DecodeStage
    \/ AssembleStage
    \/ ReturnStage
    \/ Collect
    \/ Finish

Spec == Init /\ [][Next]_vars

(***************************************************************************)
(* Properties.                                                             *)
(***************************************************************************)
Range(q) == {q[k] : k \in 1..Len(q)}
Stages == <<"Uploaded", "Parsed", "Filtered", "TimeNormalized", "Decoded", "Assembled">>
StageRank(p) == CHOOSE k \in 1..Len(Stages) : Stages[k] = p
InCall == pc \in Range(Stages) \cup {"Returned"}
Failures(m) == {k \in 1..Len(m) : m[k] \in FailureMessages}

\* ---- C1 -----------------------------------------------------------------
\* the reference of the claim: a token is valid hexadecimal when it is a
\* non-empty string of hexadecimal digits
RefValidHex(t) == t # <<>> /\ \A k \in 1..Len(t) : IsHexDigit(t[k])
RefDecode(payload) ==
    LET toks == Split(Strip(payload))
    IN IF Len(toks) < 2 \/ ~RefValidHex(toks[2])
       THEN NaN
       ELSE Float255(HexValue(toks[2], 0) * MAX_PHYSICAL_PRESSURE)

\* C1: for every payload string, hex_to_pressure is the reference decode: NaN
\* when the trimmed payload has fewer than 2 whitespace-separated tokens or
\* token 1 is not valid hexadecimal, hex_to_int(token) * (200/255) otherwise.
C1_DecodeAgreesWithReference ==
    pc = "Decoded" =>
        \A k \in 1..Len(df_filtered) :
            df_filtered[k].Pressure = RefDecode(df_filtered[k].Data)

\* ---- C2 -----------------------------------------------------------------
Parsed(k) == ~time_dt[k].nat
\* e is t - t0, stated by addition: t0 + e = t with the microseconds carried
IsDifference(e, t, t0) ==
    /\ ~e.nat /\ e.us \in 0..999999
    /\ \E c \in {0, 1} : /\ e.us + t0.us = t.us + 1000000 * c
                         /\ e.s + t0.s + c = t.s
ExampleTimes == <<T_051050, T_051000, T_051100>>
ExampleElapsed == <<TimeOf(0, 500000), TimeOf(0, 0), TimeOf(1, 0)>>

\* C2: after time normalisation, row k of the filtered table holds the parsed
\* time of row k minus the minimum parsed time over the filtered rows that
\* parse, rows that do not parse stay missing, every elapsed value is >= 0,
\* and the times 05:10.500, 05:10.000, 05:11.000 give 0.5, 0.0, 1.0.
C2_ElapsedFromMinimum ==
    pc = "TimeNormalized" =>
        /\ Len(df_filtered) = Len(time_series) /\ Len(time_dt) = Len(time_series)
        /\ \A k \in 1..Len(df_filtered) :
              /\ time_series[k] = Strip(MessageFilter(df.rows)[k].Time.text)
              /\ ~Parsed(k) => df_filtered[k].Time.nat
              /\ Parsed(k) =>
                    /\ \E m \in 1..Len(time_dt) :
                          /\ Parsed(m)
                          /\ \A j \in 1..Len(time_dt) :
                                Parsed(j) => ~TimeLess(time_dt[j], time_dt[m])
                          /\ IsDifference(df_filtered[k].Time, time_dt[k], time_dt[m])
                    /\ df_filtered[k].Time.s >= 0 /\ df_filtered[k].Time.us >= 0
        /\ time_series = ExampleTimes =>
              [k \in 1..3 |-> df_filtered[k].Time] = ExampleElapsed

C2_Witness ==
    /\ pc = "TimeNormalized"
    /\ \E k \in 1..Len(time_series) : ~Parsed(k)
    /\ \E k \in 2..Len(time_series) :
          /\ Parsed(k) /\ Parsed(1) /\ TimeLess(time_dt[k], time_dt[1])
          /\ df_filtered[k].Time = TimeOf(0, 0)
          /\ df_filtered[1].Time = TimeOf(0, 500000)

\* ---- C3 -----------------------------------------------------------------
BothPresent(r) == ~r.Pressure.nan /\ ~r.Time.nat
C3_AssembleStep ==
    (pc = "Decoded" /\ pc' = "Assembled") =>
        /\ df_filtered' = SelectSeq(df_filtered, BothPresent)
        /\ Len(df_filtered') <= Len(df_filtered)
C3_Returned ==
    pc = "Returned" =>
        /\ ~ret.none => /\ ret.rows = df_filtered /\ ret.rows # <<>>
                        /\ \A k \in 1..Len(ret.rows) : BothPresent(ret.rows[k])
                        /\ Len(ret.rows) <= Len(df.rows)
        /\ (time_series # <<>> /\ df_filtered = <<>>) => ret.none

\* C3: the samples returned are exactly the filtered rows with both the
\* elapsed time and the value present, in their original relative order;
\* never more rows than the input; None when no row survives.
C3_ResultAssembly == [][C3_AssembleStep]_vars /\ []C3_Returned

C3_Witness ==
    /\ pc = "Returned" /\ ~ret.none
    /\ Len(ret.rows) = 2 /\ Len(ret.rows) < Len(time_series)
    /\ TimeLess(ret.rows[2].Time, ret.rows[1].Time)

\* ---- C4 -----------------------------------------------------------------
NormId(id) == Upper(Strip(id))
\* C4: the filtered table is exactly the rows whose identifier, trimmed and
\* uppercased, equals "295", in file order, and filtering it again with the
\* same target gives the same table.
C4_FilterExactAndIdempotent ==
    (pc = "Filtered" \/ (pc = "Returned" /\ MSG_NO_ID \in Range(msgs))) =>
        /\ LET keep == SelectSeq(df.rows, LAMBDA r : NormId(r.ID) = TARGET_CAN_ID)
           IN /\ Len(df_filtered) = Len(keep)
              /\ \A k \in 1..Len(keep) :
                    /\ df_filtered[k].Time = keep[k].Time
                    /\ df_filtered[k].Data = keep[k].Data
                    /\ df_filtered[k].ID = TARGET_CAN_ID
        /\ MessageFilter(df_filtered) = df_filtered

C4_Witness ==
    /\ pc = "Filtered"
    /\ Len(df_filtered) = 2 /\ Len(df.rows) = 3
    /\ \E k \in 1..3 : df.rows[k].ID = ID_295_SP
    /\ \E k \in 1..3 : df.rows[k].ID = ID_296

\* ---- C5 -----------------------------------------------------------------
Min(a, b) == IF a < b THEN a ELSE b
FirstOk(file) ==
    LET ok == {k \in 1..Len(delimiters) : ~ReadCsv(file, k).raised}
    IN IF ok = {} THEN 0 ELSE CHOOSE k \in ok : \A j \in ok : k <= j
\* what load_and_process_data returns and reports for one file on its own
AloneResult(file) ==
    LET k == FirstOk(file)
        filtered == IF k = 0 THEN <<>> ELSE MessageFilter(file.parse[k].rows)
        elapsed == NormalizeTimes([n \in 1..Len(filtered) |-> Strip(filtered[n].Time.text)])
        decoded == [n \in 1..Len(filtered) |->
                       [Time |-> elapsed[n], ID |-> filtered[n].ID,
                        Data |-> Strip(filtered[n].Data),
                        Pressure |-> hex_to_pressure(Strip(filtered[n].Data))]]
        kept == SelectSeq(decoded, BothPresent)
    IN IF k = 0 THEN [ret |-> None, msgs |-> <<MSG_INFO, MSG_UNPARSEABLE>>]
       ELSE IF filtered = <<>> THEN [ret |-> None, msgs |-> <<MSG_INFO, MSG_LOADED, MSG_NO_ID>>]
       ELSE IF kept = <<>> THEN [ret |-> None, msgs |-> <<MSG_INFO, MSG_LOADED, MSG_EMPTY>>]
       ELSE [ret |-> DataFrame(kept), msgs |-> <<MSG_INFO, MSG_LOADED>>]

\* C5: the first three uploaded files are each processed once, in upload
\* order, and no file beyond the third; a file that fails is left out of
\* processed_data without stopping the files after it; and the result of a
\* file is the result it has alone, whatever the other files are.
C5_PerFileIsolation ==
    /\ Len(results) <= Min(MAX_FILES_TO_PROCESS, Len(uploaded_files))
    /\ \A k \in 1..Len(results) :
          /\ results[k].file_index = k
          /\ results[k].name = uploaded_files[k].name
          /\ results[k].ret = AloneResult(uploaded_files[k]).ret
          /\ results[k].msgs = AloneResult(uploaded_files[k]).msgs
    /\ processed_data =
          SelectSeq([k \in 1..Len(results) |->
                        [idx |-> k - 1, df |-> results[k].ret, name |-> results[k].name]],
                    LAMBDA e : ~e.df.none)
    /\ pc = "Done" => Len(results) = Min(MAX_FILES_TO_PROCESS, Len(uploaded_files))

C5_Witness ==
    /\ pc = "Done"
    /\ Len(uploaded_files) > MAX_FILES_TO_PROCESS
    /\ Len(results) = MAX_FILES_TO_PROCESS
    /\ results[1].ret.none /\ results[2].ret.none /\ ~results[3].ret.none
    /\ MSG_UNPARSEABLE \in Range(results[1].msgs)
    /\ Len(processed_data) = 1

\* ---- C6 -----------------------------------------------------------------
AllTimesFailed == time_dt # <<>> /\ \A k \in 1..Len(time_dt) : time_dt[k].nat
\* C6: when every row of the filtered set fails time parsing, the file is
\* reported Empty with the time-conversion reason and not with the reason of
\* an empty result after conversion.
C6_TimeFailureHasOwnReason ==
    (pc = "Returned" /\ AllTimesFailed) =>
        /\ ret.none
        /\ {msgs[k] : k \in Failures(msgs)} = {MSG_TIME}

\* ---- C7 -----------------------------------------------------------------
\* C7: every non-missing decoded value comes from a byte 0..255 and lies in
\* [0, 200] (num / 255 with num in 0 .. 200 * 255).
C7_DecodedValueInRange ==
    pc = "Decoded" =>
        \A k \in 1..Len(df_filtered) :
            ~df_filtered[k].Pressure.nan =>
                /\ df_filtered[k].Pressure.num >= 0
                /\ df_filtered[k].Pressure.num <= MAX_PHYSICAL_PRESSURE * RAW_FULL_SCALE

\* ---- C8 -----------------------------------------------------------------
\* every step moves forward: to the next stage, out of the call, to the next
\* delimiter candidate inside Uploaded, or to the next file
C8_StageStep ==
    /\ pc' # pc =>
        \/ pc = "Start" /\ pc' \in {"Loop", "Done"}
        \/ pc = "Loop" /\ pc' = "Uploaded" /\ i' = i /\ i < Len(files_to_process)
        \/ pc = "Loop" /\ pc' = "Done" /\ i' = i /\ i = Len(files_to_process)
        \/ /\ pc \in Range(Stages) /\ pc' \in Range(Stages)
           /\ StageRank(pc') = StageRank(pc) + 1
        \/ pc \in Range(Stages) /\ pc' = "Returned"
        \/ pc = "Returned" /\ pc' = "Loop" /\ i' = i + 1
    /\ pc' = pc =>
        /\ pc = "Uploaded" /\ sep \in 1..Len(delimiters) /\ sep' = sep + 1
C8_Outcome ==
    /\ pc \in Range(Stages) => Failures(msgs) = {}
    /\ pc = "Returned" =>
          \/ ret.none /\ Cardinality(Failures(msgs)) = 1
          \/ ~ret.none /\ ret.rows # <<>> /\ Failures(msgs) = {}

\* C8: the stages of a file run in the order Uploaded, Parsed, Filtered,
\* TimeNormalized, Decoded, Assembled, none repeated; no stage runs once the
\* file is marked Empty; a call ends in exactly one of Empty with one reason
\* or a non-empty table; every step advances the stage, the delimiter
\* candidate or the file, so a call cannot loop.
C8_PipelineStateMachine == [][C8_StageStep]_vars /\ []C8_Outcome

C8_Witness ==
    /\ pc = "Done" /\ Len(results) = 3
    /\ results[1].ret.none /\ MSG_NO_ID \in Range(results[1].msgs)
    /\ ~results[2].ret.none
    /\ results[3].ret.none /\ MSG_EMPTY \in Range(results[3].msgs)

\* ---- C9 -----------------------------------------------------------------
\* C9: the delimiter candidates are tried in the order of the list; the
\* table used downstream is the one of the first candidate that parses, and
\* no later candidate is tried; when none parses the file is rejected and
\* the filter is never entered.
C9_FirstDelimiterWins ==
    /\ pc = "Uploaded" =>
          /\ sep \in 1..(Len(delimiters) + 1) /\ df.none
          /\ \A k \in 1..(sep - 1) : ReadCsv(CurrentFile, k).raised
    /\ pc \in Range(Stages) \ {"Uploaded"} =>
          /\ sep = FirstOk(CurrentFile) /\ sep \in 1..Len(delimiters)
          /\ df = DataFrame(CurrentFile.parse[sep].rows)
    /\ (pc = "Returned" /\ FirstOk(CurrentFile) = 0) =>
          /\ sep = Len(delimiters) + 1 /\ df.none /\ ret.none
          /\ msgs = <<MSG_INFO, MSG_UNPARSEABLE>>
          /\ df_filtered = <<>> /\ time_series = <<>>
    /\ (pc = "Returned" /\ FirstOk(CurrentFile) # 0) => MSG_UNPARSEABLE \notin Range(msgs)

C9_Witness ==
    /\ pc = "Parsed" /\ sep = 2
    /\ ReadCsv(CurrentFile, 1).raised
    /\ ~ReadCsv(CurrentFile, 3).raised
    /\ df.rows # CurrentFile.parse[3].rows

\* ---- C10 ----------------------------------------------------------------
\* <integer>:<integer>[.<fraction>] with minutes and seconds of one or two
\* digits and at most 59
RefTimeForm(t) ==
    \E c \in 2..Len(t) :
        LET e == DigitRunEnd(t, c + 1)
            minutes == SubSeq(t, 1, c - 1)
            seconds == SubSeq(t, c + 1, e - 1)
        IN /\ t[c] = ":" /\ DigitRunEnd(t, 1) = c
           /\ FieldOK(minutes, 59) /\ e > c + 1 /\ FieldOK(seconds, 59)
           /\ \/ e = Len(t) + 1
              \/ e <= Len(t) /\ t[e] = "." /\ e < Len(t) /\ DigitRunEnd(t, e + 1) = Len(t) + 1
RefTimeValue(t) ==
    LET c == DigitRunEnd(t, 1)
        e == DigitRunEnd(t, c + 1)
        frac == SubSeq(t, e + 1, Len(t))
    IN TimeOf(DecValue(SubSeq(t, 1, c - 1), 0) * 60 + DecValue(SubSeq(t, c + 1, e - 1), 0),
              DecValue(PadRight(frac, 6), 0))

\* C10: a trimmed time string <integer>:<integer>[.<fraction>] is rewritten
\* with a leading 00: and parses to minutes * 60 + seconds (+ fraction), with
\* or without the fractional part; any other string parses to missing.
C10_TimeAcceptance ==
    pc = "TimeNormalized" =>
        \A k \in 1..Len(time_series) :
            IF RefTimeForm(time_series[k])
            THEN /\ time_dt_str[k] = <<"0", "0", ":">> \o time_series[k]
                 /\ time_dt[k] = RefTimeValue(time_series[k])
            ELSE time_dt[k].nat

====
